---- MODULE Spec2Model ----
(***************************************************************************)
(* Completion popup controller of helix-term (ui/completion.rs).           *)
(*                                                                         *)
(* The document is a sequence of characters with one cursor position.      *)
(* Offsets are 0-based character offsets as in the source; a range         *)
(* [from, to) covers the characters from+1 .. to of the TLA+ sequence.     *)
(* The rope, Transaction, the Menu widget and the host editor's input      *)
(* path live in other crates/files; they are modelled from the interface   *)
(* contract (text, apply, cursor / score, clear).  Edit ranges are held as *)
(* native character offsets (the offset transcoding happens in             *)
(* helix_lsp::util, outside this file).                                    *)
(***************************************************************************)
EXTENDS Integers, Sequences, FiniteSets, TLC

\* ------------------------------------------------------------------ bounds
MaxLen == 4        \* longest document the model lets an edit produce
MaxInitLen == 2    \* longest document at the time the session is created
MaxWidth == 34     \* widest viewport of the layout sweep
MaxHeight == 33    \* tallest viewport of the layout sweep
MaxPopupX == 2     \* rightmost menu column of the layout sweep
MaxPopupWidth == 3 \* widest menu of the layout sweep

Chars == {"a", "b"}

\* ------------------------------------------------------------ optional values
None == <<>>
Some(x) == <<x>>
IsSome(o) == Len(o) = 1
unwrap_or(o, d) == IF IsSome(o) THEN o[1] ELSE d

\* ------------------------------------------------------------------ candidates
\* lsp::TextEdit with its range as offsets, and the two CompletionTextEdit variants
TextEdit(from, to, new_text) ==
  [variant |-> "Edit", from |-> from, to |-> to, new_text |-> new_text]

InsertAndReplace(from, to, new_text) ==
  [variant |-> "InsertAndReplace", from |-> from, to |-> to, new_text |-> new_text]

CompletionItem(label, filter_text, sort_text, insert_text, text_edit, additional, documentation, detail) ==
  [label |-> label, filter_text |-> filter_text, sort_text |-> sort_text,
   insert_text |-> insert_text, text_edit |-> text_edit,
   additional_text_edits |-> additional,
   documentation |-> documentation, detail |-> detail]

\* The catalogue of candidates the analysis service may deliver.
Catalogue ==
  << CompletionItem(<<"a","b">>, None, None, None, None, None,
                    Some("doc"), None),
     CompletionItem(<<"b">>, Some(<<"a">>), Some(<<"b","b">>), Some(<<"b","a">>), None,
                    Some(<<>>), None, Some("detail")),
     CompletionItem(<<"a">>, None, None, Some(<<"b">>),
                    Some(TextEdit(0, 0, <<"a","a">>)), None,
                    None, None),
     CompletionItem(<<"b","a">>, None, None, None,
                    Some(TextEdit(0, 1, <<"b">>)),
                    Some(<<TextEdit(0, 0, <<"b">>)>>),
                    Some("doc"), Some("detail")),
     CompletionItem(<<"a","a">>, None, None, Some(<<"a">>),
                    Some(InsertAndReplace(0, 0, <<"a">>)), None,
                    None, None),
     CompletionItem(<<"b","b">>, Some(<<"b">>), None, None, None,
                    Some(<<TextEdit(0, 0, <<"a">>), TextEdit(1, 1, <<"b">>)>>),
                    Some("doc"), None) >>

\* The candidate lists a session may be created with (indices into Catalogue).
OptionLists == { <<1, 2, 3, 4, 5, 6>>, <<5, 1>>, <<6, 4, 2>> }

\* impl menu::Item for CompletionItem
filter_text(item) == unwrap_or(item.filter_text, item.label)

sort_text(item) == unwrap_or(item.filter_text, item.label)

label(item) == item.label

VARIABLES
  text,            \* doc.text()
  cursor,          \* doc.selection(view.id).primary().cursor(..)
  options,         \* the menu's items: indices into Catalogue, fixed per session
  start_offset,    \* Completion.start_offset
  trigger_offset,  \* Completion.trigger_offset (captured by the callback)
  matches,         \* the menu's ranked subset: positions in options
  status,          \* "active", "accepted", "aborted" or "panicked"
  applied,         \* the transactions doc.apply received during the last event
  menu_calls,      \* the calls the last re-filter made on the menu
  lastEvent,       \* the last operation: [kind, item]
  prevText,        \* the document text before the last operation
  prevCursor,      \* the cursor before the last operation
  selection,       \* the menu's selection: an index into Catalogue, 0 for none
  event_result,    \* the EventResult of the last handle_event
  forwarded,       \* whether the last handle_event reached popup.handle_event
  geom,            \* what render reads: viewport, menu rectangle, cursor row, ...
  frame,           \* the documentation panel of the last render
  origin           \* history: the document as it was at the trigger, and whether
                   \* only typing at or after trigger_offset and menu events followed

vars == <<text, cursor, options, start_offset, trigger_offset, matches, status,
          applied, menu_calls, lastEvent, prevText, prevCursor, selection,
          event_result, forwarded, geom, frame, origin>>

\* ------------------------------------------------------------------ document
Slice(t, from, to) == SubSeq(t, from + 1, to)

\* one (from, to, replacement) change of Transaction::change
Change(from, to, replacement) == [from |-> from, to |-> to, text |-> replacement]

\* Transaction::change(doc.text(), changes): the changes, and the text they were
\* computed against
Transaction(doc_text, changes) == [doc |-> doc_text, changes |-> changes]

RECURSIVE ApplyChanges(_, _)
ApplyChanges(t, changes) ==
  IF changes = <<>> THEN t
  ELSE LET c == changes[Len(changes)]
       IN ApplyChanges(Slice(t, 0, c.from) \o c.text \o Slice(t, c.to, Len(t)),
                       SubSeq(changes, 1, Len(changes) - 1))

\* ChangeSet::map_pos(pos, Assoc::After), which doc.apply uses for the selection
RECURSIVE map_pos(_, _, _, _)
map_pos(pos, changes, i, delta) ==
  IF i > Len(changes) THEN pos + delta
  ELSE LET c == changes[i]
       IN IF pos < c.from THEN pos + delta
          ELSE IF pos < c.to
               THEN IF pos = c.from THEN c.from + delta
                    ELSE c.from + delta + Len(c.text)
               ELSE map_pos(pos, changes, i + 1, delta + Len(c.text) - (c.to - c.from))

\* a change list Transaction::change accepts for a text: sorted, disjoint, in range
ValidChanges(t, changes) ==
  /\ \A i \in 1..Len(changes) : changes[i].from <= changes[i].to /\ changes[i].to <= Len(t)
  /\ \A i \in 1..(Len(changes) - 1) : changes[i].to <= changes[i + 1].from

\* doc.apply(&transaction, view.id) on the document d = [text, cursor]
apply(d, tx) ==
  [text |-> ApplyChanges(d.text, tx.changes),
   cursor |-> map_pos(d.cursor, tx.changes, 1, 0)]

\* util::generate_transaction_from_edits(doc.text(), edits, offset_encoding)
generate_transaction_from_edits(doc_text, edits) ==
  Transaction(doc_text,
              [i \in 1..Len(edits) |-> Change(edits[i].from, edits[i].to, edits[i].new_text)])

\* ---------------------------------------------------------------------- menu
\* the fuzzy matcher's contract: the pattern's characters occur in the text in order
RECURSIVE fuzzy_match(_, _)
fuzzy_match(t, pattern) ==
  IF pattern = <<>> THEN TRUE
  ELSE IF t = <<>> THEN FALSE
  ELSE IF Head(t) = Head(pattern) THEN fuzzy_match(Tail(t), Tail(pattern))
  ELSE fuzzy_match(Tail(t), pattern)

\* Menu::score(pattern): the positions of the options whose filter_text matches,
\* in the options' order
score(opts, pattern) ==
  LET Matching(i) == fuzzy_match(filter_text(Catalogue[opts[i]]), pattern)
  IN SelectSeq([i \in 1..Len(opts) |-> i], Matching)

\* Menu::clear()
clear == <<>>

\* Menu::is_empty(), through Completion::is_empty
is_empty == matches = <<>>

\* ---------------------------------------------------------------- completion
\* item_to_transaction with the unsupported variant downgraded to a plain insert
item_to_transaction_downgrade(d, item) ==
  IF IsSome(item.text_edit) /\ item.text_edit[1].variant = "Edit"
  THEN [panic |-> FALSE,
        tx |-> generate_transaction_from_edits(d.text, <<item.text_edit[1]>>)]
  ELSE LET t == unwrap_or(item.insert_text, item.label)
       IN [panic |-> FALSE,
           tx |-> Transaction(d.text, <<Change(d.cursor, d.cursor, t)>>)]

\* item_to_transaction with the precedence inverted: insert_text wins over the edit
item_to_transaction_insert_first(d, item) ==
  IF IsSome(item.text_edit) /\ ~IsSome(item.insert_text)
  THEN LET edit == item.text_edit[1]
       IN IF edit.variant = "Edit"
          THEN [panic |-> FALSE,
                tx |-> generate_transaction_from_edits(d.text, <<edit>>)]
          ELSE [panic |-> TRUE, tx |-> Transaction(d.text, <<>>)]
  ELSE LET t == unwrap_or(item.insert_text, item.label)
       IN [panic |-> FALSE,
           tx |-> Transaction(d.text, <<Change(d.cursor, d.cursor, t)>>)]

\* item_to_transaction(doc, view, item, offset_encoding); unimplemented!() panics
item_to_transaction(d, item) ==
  IF IsSome(item.text_edit)
  THEN LET edit == item.text_edit[1]
       IN IF edit.variant = "Edit"
          THEN [panic |-> FALSE,
                tx |-> generate_transaction_from_edits(d.text, <<edit>>)]
          ELSE [panic |-> TRUE, tx |-> Transaction(d.text, <<>>)]
  ELSE LET t == unwrap_or(item.insert_text, item.label)
       IN [panic |-> FALSE,
           tx |-> Transaction(d.text, <<Change(d.cursor, d.cursor, t)>>)]

\* one doc.apply call: the call site and the transaction it was given
Applied(site, tx) == [site |-> site, tx |-> tx]

Outcome(d, log, panicked) == [doc |-> d, applied |-> log, panicked |-> panicked]

\* an Abort arm that retracts the text entered since the trigger
on_abort_retract(d, item) ==
  LET remove == Transaction(d.text, <<Change(trigger_offset, d.cursor, <<>>)>>)
  IN IF trigger_offset < d.cursor
     THEN [doc |-> apply(d, remove), applied |-> <<[site |-> "remove", tx |-> remove]>>,
           panicked |-> FALSE]
     ELSE [doc |-> d, applied |-> <<>>, panicked |-> FALSE]

\* the callback's PromptEvent::Abort arm
on_abort(d, item) == Outcome(d, <<>>, FALSE)

\* an Update arm that also applies the additional edits, as the Validate arm does
on_update_with_additional(d, item) ==
  LET entered == trigger_offset < d.cursor
      remove == Transaction(d.text, <<Change(trigger_offset, d.cursor, <<>>)>>)
      d1 == IF entered THEN apply(d, remove) ELSE d
      log1 == IF entered THEN <<Applied("remove", remove)>> ELSE <<>>
      r == item_to_transaction(d1, item)
      d2 == apply(d1, r.tx)
      log2 == Append(log1, Applied("insert", r.tx))
      more == /\ IsSome(item.additional_text_edits)
              /\ item.additional_text_edits[1] # <<>>
      extra == generate_transaction_from_edits(d2.text, item.additional_text_edits[1])
  IN IF r.panic THEN Outcome(d1, log1, TRUE)
     ELSE IF more
          THEN Outcome(apply(d2, extra), Append(log2, Applied("additional", extra)), FALSE)
          ELSE Outcome(d2, log2, FALSE)

\* an Update arm that applies the insertion first and retracts the entered text after
on_update_insert_first(d, item) ==
  LET entered == trigger_offset < d.cursor
      r == item_to_transaction(d, item)
      d1 == apply(d, r.tx)
      log1 == <<Applied("insert", r.tx)>>
      remove == Transaction(d1.text, <<Change(trigger_offset, d1.cursor, <<>>)>>)
  IN IF r.panic THEN Outcome(d, <<>>, TRUE)
     ELSE IF entered
          THEN Outcome(apply(d1, remove), Append(log1, Applied("remove", remove)), FALSE)
          ELSE Outcome(d1, log1, FALSE)

\* the callback's PromptEvent::Update arm
on_update(d, item) ==
  LET entered == trigger_offset < d.cursor
      remove == Transaction(d.text, <<Change(trigger_offset, d.cursor, <<>>)>>)
      d1 == IF entered THEN apply(d, remove) ELSE d
      log1 == IF entered THEN <<Applied("remove", remove)>> ELSE <<>>
      r == item_to_transaction(d1, item)
  IN IF r.panic THEN Outcome(d1, log1, TRUE)
     ELSE Outcome(apply(d1, r.tx), Append(log1, Applied("insert", r.tx)), FALSE)

\* a Validate arm whose additional edits are computed against the document before
\* the primary edit
on_validate_additional_early(d, item) ==
  LET entered == trigger_offset < d.cursor
      remove == Transaction(d.text, <<Change(trigger_offset, d.cursor, <<>>)>>)
      d1 == IF entered THEN apply(d, remove) ELSE d
      log1 == IF entered THEN <<Applied("remove", remove)>> ELSE <<>>
      r == item_to_transaction(d1, item)
      d2 == apply(d1, r.tx)
      log2 == Append(log1, Applied("insert", r.tx))
      more == /\ IsSome(item.additional_text_edits)
              /\ item.additional_text_edits[1] # <<>>
      extra == generate_transaction_from_edits(d1.text, item.additional_text_edits[1])
  IN IF r.panic THEN Outcome(d1, log1, TRUE)
     ELSE IF more
          THEN Outcome(apply(d2, extra), Append(log2, Applied("additional", extra)), FALSE)
          ELSE Outcome(d2, log2, FALSE)

\* a Validate arm that removes whenever trigger_offset <= cursor
on_validate_remove_at_trigger(d, item) ==
  LET entered == trigger_offset <= d.cursor
      remove == Transaction(d.text, <<Change(trigger_offset, d.cursor, <<>>)>>)
      d1 == IF entered THEN apply(d, remove) ELSE d
      log1 == IF entered THEN <<Applied("remove", remove)>> ELSE <<>>
      r == item_to_transaction(d1, item)
      d2 == apply(d1, r.tx)
      log2 == Append(log1, Applied("insert", r.tx))
      more == /\ IsSome(item.additional_text_edits)
              /\ item.additional_text_edits[1] # <<>>
      extra == generate_transaction_from_edits(d2.text, item.additional_text_edits[1])
  IN IF r.panic THEN Outcome(d1, log1, TRUE)
     ELSE IF more
          THEN Outcome(apply(d2, extra), Append(log2, Applied("additional", extra)), FALSE)
          ELSE Outcome(d2, log2, FALSE)

\* the callback's PromptEvent::Validate arm
on_validate(d, item) ==
  LET entered == trigger_offset < d.cursor
      remove == Transaction(d.text, <<Change(trigger_offset, d.cursor, <<>>)>>)
      d1 == IF entered THEN apply(d, remove) ELSE d
      log1 == IF entered THEN <<Applied("remove", remove)>> ELSE <<>>
      r == item_to_transaction(d1, item)
      d2 == apply(d1, r.tx)
      log2 == Append(log1, Applied("insert", r.tx))
      more == /\ IsSome(item.additional_text_edits)
              /\ item.additional_text_edits[1] # <<>>
      extra == generate_transaction_from_edits(d2.text, item.additional_text_edits[1])
  IN IF r.panic THEN Outcome(d1, log1, TRUE)
     ELSE IF more
          THEN Outcome(apply(d2, extra), Append(log2, Applied("additional", extra)), FALSE)
          ELSE Outcome(d2, log2, FALSE)

\* the closure given to Menu::new; item is the menu's selection, an Option
callback_fn(d, item, event) ==
  CASE event = "Abort" -> on_abort(d, item)
    [] event = "Update" -> on_update(d, item[1])
    [] event = "Validate" -> on_validate(d, item[1])

\* recompute_filter without the anchor test: it always scores
recompute_filter_always_score(d, opts) ==
  LET fragment == Slice(d.text, start_offset, d.cursor)
  IN [matches |-> score(opts, fragment),
      calls |-> <<[op |-> "score", pattern |-> fragment]>>]

\* recompute_filter taking the fragment from trigger_offset instead of start_offset
recompute_filter_from_trigger(d, opts) ==
  IF start_offset <= d.cursor
  THEN LET fragment == Slice(d.text, trigger_offset, d.cursor)
       IN [matches |-> score(opts, fragment),
           calls |-> <<[op |-> "score", pattern |-> fragment]>>]
  ELSE [matches |-> clear, calls |-> <<[op |-> "clear", pattern |-> <<>>]>>]

\* recompute_filter that is Empty already with the cursor at start_offset
recompute_filter_clear_at_start(d, opts) ==
  IF start_offset < d.cursor
  THEN LET fragment == Slice(d.text, start_offset, d.cursor)
       IN [matches |-> score(opts, fragment),
           calls |-> <<[op |-> "score", pattern |-> fragment]>>]
  ELSE [matches |-> clear, calls |-> <<[op |-> "clear", pattern |-> <<>>]>>]

\* Completion::recompute_filter: the menu's new ranked subset and the calls made
recompute_filter(d, opts) ==
  IF start_offset <= d.cursor
  THEN LET fragment == Slice(d.text, start_offset, d.cursor)
       IN [matches |-> score(opts, fragment),
           calls |-> <<[op |-> "score", pattern |-> fragment]>>]
  ELSE [matches |-> clear, calls |-> <<[op |-> "clear", pattern |-> <<>>]>>]

\* a handle_event that hands every event, Esc included, to the popup
handle_event_forward_all(key, popup_result) ==
  [result |-> popup_result, forwarded |-> TRUE]

\* Completion::handle_event: Esc is left to the editor, the rest goes to the popup
handle_event(key, popup_result) ==
  IF key = "Esc"
  THEN [result |-> "Ignored", forwarded |-> FALSE]
  ELSE [result |-> popup_result, forwarded |-> TRUE]

\* Popup/Menu handle_event: the menu consumes its own keys (Esc among them) and
\* ignores the rest, which the editor then handles
popup_handle_event(key) ==
  IF key \in {"Tab", "Enter", "CtrlC", "Esc"} THEN "Consumed" ELSE "Ignored"

\* the key event goes through Completion::handle_event
Handle(key) ==
  LET h == handle_event(key, popup_handle_event(key))
  IN /\ event_result' = h.result
     /\ forwarded' = h.forwarded

\* the event reaches the popup
Delegated(key) == handle_event(key, popup_handle_event(key)).forwarded

\* ---------------------------------------------------------------------- render
U16 == 65536

saturating_sub(a, b) == IF a > b THEN a - b ELSE 0

Min(a, b) == IF a < b THEN a ELSE b

\* Markdown::required_size(viewport): the document's natural size, cut to the viewport
required_size(g, width, height) ==
  Some([width |-> Min(g.natural_width, width), height |-> Min(g.natural_height, height)])

\* what one render pass did about the documentation panel
Panel(placement, x, y, width, height, cursor_pos) ==
  [drawn |-> TRUE, placement |-> placement, x |-> x, y |-> y, width |-> width,
   height |-> height, cursor_pos |-> cursor_pos, underflow |-> FALSE,
   panicked |-> FALSE]

NoPanel ==
  [drawn |-> FALSE, placement |-> "none", x |-> 0, y |-> 0, width |-> 0, height |-> 0,
   cursor_pos |-> 0, underflow |-> FALSE, panicked |-> FALSE]

\* an unsigned subtraction went below zero: a panic in a build with overflow
\* checks, a wrapped value otherwise
Underflow(g, p) ==
  [p EXCEPT !.underflow = TRUE,
            !.panicked = (g.build = "debug"),
            !.drawn = (p.drawn /\ g.build # "debug")]

\* the width left of the viewport, with wrapping in place of saturating subtraction
available_width_wrapping(g) ==
  (g.area_width - g.popup_x - g.popup_width) % U16

\* area.width.saturating_sub(popup_x).saturating_sub(popup_width)
available_width(g) ==
  saturating_sub(saturating_sub(g.area_width, g.popup_x), g.popup_width)

\* the beside placement with the whole viewport height, menu row not subtracted
place_beside_full_height(g, width, cursor_pos) ==
  LET height == g.area_height
      x == g.popup_x + g.popup_width
      y == g.popup_y
      size == required_size(g, width, height)
  IN IF IsSome(size)
     THEN Panel("beside", x, y, size[1].width, size[1].height, cursor_pos)
     ELSE Panel("beside", x, y, width, height, cursor_pos)

\* render, the branch width > 30: the panel beside the menu
place_beside(g, width, cursor_pos) ==
  LET height == saturating_sub(g.area_height, g.popup_y)
      x == g.popup_x + g.popup_width
      y == g.popup_y
      size == required_size(g, width, height)
  IN IF IsSome(size)
     THEN Panel("beside", x, y, size[1].width, size[1].height, cursor_pos)
     ELSE Panel("beside", x, y, width, height, cursor_pos)

\* render, the else branch: the panel over the full width, at the bottom or the top
place_stacked(g, cursor_pos) ==
  LET half == g.area_height \div 2
      height == Min(15, half)
      limit == g.editor_height - height - 2
      y == IF (cursor_pos + g.area_y) % U16 >= limit % U16
           THEN 0
           ELSE saturating_sub(saturating_sub(g.area_height, height), 2)
      p == Panel("stacked", 0, y, g.area_width, height, cursor_pos)
  IN IF limit < 0 THEN Underflow(g, p) ELSE p

\* Completion::render, the part after the popup itself is drawn
render(g, option) ==
  IF option = None THEN NoPanel
  ELSE
    LET item == option[1]
        rows == g.cursor_row - g.offset_row
        cursor_pos == rows % U16
        width == available_width(g)
    IN IF rows < 0 /\ g.build = "debug" THEN Underflow(g, NoPanel)
       ELSE IF item.documentation = None /\ item.detail = None
            THEN IF rows < 0 THEN Underflow(g, NoPanel) ELSE NoPanel
       ELSE LET p == IF width > 30 THEN place_beside(g, width, cursor_pos)
                     ELSE place_stacked(g, cursor_pos)
            IN IF rows < 0 THEN Underflow(g, p) ELSE p

\* the inputs of render: the viewport (area), the menu's rectangle from
\* popup.get_rel_position and get_size, the cursor's row and the view's scroll
\* row, the editor tree's height, the natural size of the documentation
Geometry(area_width, area_height, area_y, popup_x, popup_y, popup_width, cursor_row, offset_row, editor_height, natural_width, natural_height, build) ==
  [area_width |-> area_width, area_height |-> area_height, area_y |-> area_y,
   popup_x |-> popup_x, popup_y |-> popup_y, popup_width |-> popup_width,
   cursor_row |-> cursor_row, offset_row |-> offset_row,
   editor_height |-> editor_height, natural_width |-> natural_width,
   natural_height |-> natural_height, build |-> build]

Builds == {"debug", "release"}

\* the editor tree's area is the terminal's, or one row less
EditorHeights(h) == {h} \cup (IF h > 0 THEN {h - 1} ELSE {})

\* viewports of every width around the switch of placement, the menu inside
\* the viewport or sticking out of it on the right
WidthSweep ==
  { Geometry(w, MaxHeight, 0, px, py, pw, 0, 0, MaxHeight, n[1], n[2], "debug") :
      w \in 0..MaxWidth, px \in 0..MaxPopupX, pw \in 0..MaxPopupWidth,
      py \in {0, 1, MaxHeight}, n \in {<<3, 2>>, <<100, 100>>} }

\* narrow viewports of every height, the cursor on every row of the view
HeightSweep ==
  { Geometry(20, h, 0, 0, 0, 0, off + pos, off, eh, 3, 2, b) :
      h \in 0..MaxHeight, pos \in 0..MaxHeight, off \in {0, 1},
      eh \in 0..MaxHeight, b \in Builds }

Geometries ==
  WidthSweep \cup
  { g \in HeightSweep : /\ g.cursor_row - g.offset_row <= saturating_sub(g.area_height, 1)
                        /\ g.editor_height \in EditorHeights(g.area_height) }

\* the viewport of the session under Spec: an 80 x 24 terminal
SessionViewports ==
  { Geometry(80, 24, 0, 10, 5, 20, 4, 0, 23, 30, 6, "debug") }

\* ------------------------------------------------------------------- actions
Doc == [text |-> text, cursor |-> cursor]

Texts(n) == UNION {[1..k -> Chars] : k \in 0..n}

Event(kind, item) == [kind |-> kind, item |-> item]

\* the document at the trigger: what was entered since, [trigger_offset, cursor),
\* taken out; unknown once the cursor is before the trigger
OriginAt(t, c, trigger) ==
  [text |-> IF trigger <= c THEN Slice(t, 0, trigger) \o Slice(t, c, Len(t)) ELSE t,
   known |-> trigger <= c]

\* Completion::new: the state once the constructor has re-filtered
Init ==
  /\ text \in Texts(MaxInitLen)
  /\ cursor \in 0..Len(text)
  /\ trigger_offset \in 0..Len(text)
  /\ start_offset \in 0..trigger_offset
  /\ options \in OptionLists
  /\ LET r == recompute_filter([text |-> text, cursor |-> cursor], options)
     IN matches = r.matches /\ menu_calls = r.calls
  /\ status = "active"
  /\ applied = <<>>
  /\ lastEvent = Event("New", 0)
  /\ prevText = text
  /\ prevCursor = cursor
  /\ selection = 0
  /\ event_result = "Ignored"
  /\ forwarded = FALSE
  /\ geom \in SessionViewports
  /\ frame = NoPanel
  /\ origin = OriginAt(text, cursor, trigger_offset)

\* an update that moves trigger_offset to the cursor it re-filters at
update_reanchor(key, d) ==
  /\ status = "active"
  /\ Delegated(key)
  /\ Handle(key)
  /\ selection' = 0
  /\ text' = d.text
  /\ cursor' = d.cursor
  /\ LET r == recompute_filter(d, options)
     IN matches' = r.matches /\ menu_calls' = r.calls
  /\ applied' = <<>>
  /\ lastEvent' = Event("Refilter", 0)
  /\ prevText' = text
  /\ prevCursor' = cursor
  /\ origin' = [origin EXCEPT !.known = @ /\ key = "Char" /\ trigger_offset <= cursor]
  /\ trigger_offset' = d.cursor
  /\ UNCHANGED <<options, start_offset, status, geom, frame>>

\* the popup ignored the key, the host editor changed the document to d, then
\* Completion::update; Menu::score and Menu::clear reset the selection
update(key, d) ==
  /\ status = "active"
  /\ Delegated(key)
  /\ Handle(key)
  /\ selection' = 0
  /\ text' = d.text
  /\ cursor' = d.cursor
  /\ LET r == recompute_filter(d, options)
     IN matches' = r.matches /\ menu_calls' = r.calls
  /\ applied' = <<>>
  /\ lastEvent' = Event("Refilter", 0)
  /\ prevText' = text
  /\ prevCursor' = cursor
  /\ origin' = [origin EXCEPT !.known = @ /\ key = "Char" /\ trigger_offset <= cursor]
  /\ UNCHANGED <<options, start_offset, trigger_offset, status, geom, frame>>

\* the host editor's insert-mode keys, each followed by Completion::update
InsertChar ==
  \E ch \in Chars :
    /\ Len(text) < MaxLen
    /\ update("Char", [text |-> Slice(text, 0, cursor) \o <<ch>> \o Slice(text, cursor, Len(text)),
                        cursor |-> cursor + 1])

DeleteCharBackward ==
  /\ cursor > 0
  /\ update("Backspace",
            [text |-> Slice(text, 0, cursor - 1) \o Slice(text, cursor, Len(text)),
             cursor |-> cursor - 1])

MoveLeft ==
  /\ cursor > 0
  /\ update("Left", [text |-> text, cursor |-> cursor - 1])

MoveRight ==
  /\ cursor < Len(text)
  /\ update("Right", [text |-> text, cursor |-> cursor + 1])

\* every transaction was one Transaction::change accepts, and the result fits
Feasible(out) ==
  /\ \A i \in 1..Len(out.applied) :
       ValidChanges(out.applied[i].tx.doc, out.applied[i].tx.changes)
  /\ Len(out.doc.text) <= MaxLen

\* the ranked options, as indices into Catalogue
Ranked == {options[matches[m]] : m \in 1..Len(matches)}

\* the key that makes the menu run the callback with each PromptEvent
KeyOf(event) ==
  CASE event = "Update" -> "Tab"
    [] event = "Validate" -> "Enter"
    [] event = "Abort" -> "CtrlC"

\* the menu runs the callback with its selection: option k, or none when k = 0
Fire(event, k) ==
  LET out == callback_fn(Doc, IF k = 0 THEN None ELSE Some(Catalogue[k]), event)
  IN /\ status = "active"
     /\ Delegated(KeyOf(event))
     /\ Handle(KeyOf(event))
     /\ selection' = IF event = "Abort" THEN selection ELSE k
     /\ Feasible(out)
     /\ text' = out.doc.text
     /\ cursor' = out.doc.cursor
     /\ applied' = out.applied
     /\ status' = IF out.panicked THEN "panicked"
                  ELSE CASE event = "Update" -> "active"
                         [] event = "Validate" -> "accepted"
                         [] event = "Abort" -> "aborted"
     /\ lastEvent' = Event(event, k)
     /\ prevText' = text
     /\ prevCursor' = cursor
     /\ UNCHANGED <<options, start_offset, trigger_offset, matches, menu_calls,
                    geom, frame, origin>>

Update == \E k \in Ranked : Fire("Update", k)

Validate == \E k \in Ranked : Fire("Validate", k)

Abort == Fire("Abort", selection)

\* the Esc key: Completion::handle_event alone decides it
Escape ==
  /\ status = "active"
  /\ Handle("Esc")
  /\ lastEvent' = Event("Esc", 0)
  /\ applied' = <<>>
  /\ prevText' = text
  /\ prevCursor' = cursor
  /\ UNCHANGED <<text, cursor, options, start_offset, trigger_offset, matches,
                 status, menu_calls, selection, geom, frame, origin>>

\* one render pass of the compositor while the popup is on screen
Render ==
  /\ status = "active"
  /\ frame' = render(geom, IF selection = 0 THEN None ELSE Some(Catalogue[selection]))
  /\ status' = IF frame'.panicked THEN "panicked" ELSE status
  /\ UNCHANGED <<text, cursor, options, start_offset, trigger_offset, matches,
                 applied, menu_calls, lastEvent, prevText, prevCursor, selection,
                 event_result, forwarded, geom, origin>>

Next ==
  \/ InsertChar
  \/ DeleteCharBackward
  \/ MoveLeft
  \/ MoveRight
  \/ Update
  \/ Validate
  \/ Abort
  \/ Escape
  \/ Render

Spec == Init /\ [][Next]_vars

\* the layout under every geometry of the sweep: a session opened on an empty
\* document, candidates previewed and the panel rendered
LayoutInit ==
  /\ text = <<>>
  /\ cursor = 0
  /\ trigger_offset = 0
  /\ start_offset = 0
  /\ options = <<1, 3>>
  /\ LET r == recompute_filter([text |-> text, cursor |-> cursor], options)
     IN matches = r.matches /\ menu_calls = r.calls
  /\ status = "active"
  /\ applied = <<>>
  /\ lastEvent = Event("New", 0)
  /\ prevText = text
  /\ prevCursor = cursor
  /\ selection = 0
  /\ event_result = "Ignored"
  /\ forwarded = FALSE
  /\ geom \in Geometries
  /\ frame = NoPanel
  /\ origin = OriginAt(text, cursor, trigger_offset)

LayoutNext ==
  \/ Update
  \/ Render

LayoutSpec == LayoutInit /\ [][LayoutNext]_vars

TypeOK ==
  /\ text \in Texts(MaxLen)
  /\ cursor \in 0..Len(text)
  /\ status \in {"active", "accepted", "aborted", "panicked"}

\* ------------------------------------------------------------------ properties
\* the candidate of the last preview or accept event
LastItem == Catalogue[lastEvent.item]

\* the document before the last event without the text entered in [trigger_offset, cursor)
Retracted ==
  Slice(prevText, 0, trigger_offset) \o Slice(prevText, prevCursor, Len(prevText))

Sites == [i \in 1..Len(applied) |-> applied[i].site]

\* C1: a preview or accept with trigger_offset < cursor first applies a removal of
\* exactly [trigger_offset, cursor) and then the insertion, synthesized against
\* the document after the removal (for a candidate the synthesizer converts).
C1_RemoveThenInsert ==
  (/\ lastEvent.kind \in {"Update", "Validate"}
   /\ trigger_offset < prevCursor
   /\ status # "panicked")
  => /\ Len(applied) >= 2
     /\ applied[1].site = "remove"
     /\ applied[1].tx.doc = prevText
     /\ applied[1].tx.changes = <<Change(trigger_offset, prevCursor, <<>>)>>
     /\ applied[2].site = "insert"
     /\ applied[2].tx.doc = Retracted
     /\ \A i \in 3..Len(applied) : applied[i].site = "additional"

\* C1 witness: two characters entered after the trigger at offset 0, then the
\* candidate with edit {range [0,0], text "aa"} is accepted
C1_Witness ==
  /\ lastEvent = Event("Validate", 3)
  /\ trigger_offset = 0
  /\ prevCursor = 2
  /\ status = "accepted"
  /\ Sites = <<"remove", "insert">>
  /\ text = <<"a", "a">> \o Slice(prevText, 2, Len(prevText))

\* C2: a re-filter (the constructor's included) that sees the cursor before
\* start_offset leaves the ranked subset empty, so is_empty() is true.
C2_AnchorClosure ==
  (lastEvent.kind \in {"New", "Refilter"} /\ cursor < start_offset)
  => (is_empty /\ Len(matches) = 0)

\* C2 witness: the cursor was at or after start_offset, where every option
\* matched the empty fragment, and moved before it
C2_Witness ==
  /\ lastEvent.kind = "Refilter"
  /\ prevCursor = start_offset
  /\ cursor < start_offset
  /\ is_empty

\* C3: a re-filter with start_offset <= cursor calls score exactly once, with
\* the characters of the document from start_offset up to the cursor, and
\* does not call clear.
C3_ScoreFragment ==
  (lastEvent.kind \in {"New", "Refilter"} /\ start_offset <= cursor)
  => /\ Len(menu_calls) = 1
     /\ menu_calls[1].op = "score"
     /\ Len(menu_calls[1].pattern) = cursor - start_offset
     /\ \A i \in 1..(cursor - start_offset) :
          menu_calls[1].pattern[i] = text[start_offset + i]

\* C3 witness: a re-filter scoring a fragment of two characters, with the
\* trigger further right than start_offset
C3_Witness ==
  /\ lastEvent.kind = "Refilter"
  /\ start_offset < trigger_offset
  /\ cursor = start_offset + 2
  /\ menu_calls = <<[op |-> "score", pattern |-> <<text[start_offset + 1], text[start_offset + 2]>>]>>

\* C4: on accept the additional edits are applied after the primary edit, in
\* list order, against the document as the primary edit left it; without
\* additional edits (absent or empty) nothing is applied after the insertion.
C4_AdditionalEditsOrder ==
  (lastEvent.kind = "Validate" /\ status = "accepted")
  => LET edits == unwrap_or(LastItem.additional_text_edits, <<>>)
         n == Len(applied)
     IN IF edits = <<>>
        THEN /\ n >= 1
             /\ applied[n].site = "insert"
             /\ \A i \in 1..n : applied[i].site # "additional"
        ELSE /\ n >= 2
             /\ applied[n].site = "additional"
             /\ applied[n - 1].site = "insert"
             /\ \A i \in 1..(n - 1) : applied[i].site # "additional"
             /\ applied[n].tx.doc =
                  ApplyChanges(applied[n - 1].tx.doc, applied[n - 1].tx.changes)
             /\ Len(applied[n].tx.changes) = Len(edits)
             /\ \A j \in 1..Len(edits) :
                  applied[n].tx.changes[j] =
                    Change(edits[j].from, edits[j].to, edits[j].new_text)
             /\ text = ApplyChanges(applied[n].tx.doc, applied[n].tx.changes)

\* C4 witness: a candidate with two additional edits is accepted after text was
\* entered, and its primary insertion changed the document
C4_Witness ==
  /\ lastEvent = Event("Validate", 6)
  /\ status = "accepted"
  /\ Sites = <<"remove", "insert", "additional">>
  /\ Len(applied[3].tx.changes) = 2
  /\ applied[3].tx.doc # applied[2].tx.doc

\* the additional_text_edits values a candidate may carry
AdditionalValues ==
  {None, Some(<<>>), Some(<<TextEdit(0, 0, <<"b">>)>>),
   Some(<<TextEdit(0, 0, <<"a">>), TextEdit(1, 1, <<"b">>)>>)}

\* C5: no preview and no abort applies additional edits, and the transaction
\* item_to_transaction builds does not depend on additional_text_edits.
C5_AdditionalOnlyAtAccept ==
  /\ lastEvent.kind \in {"Update", "Abort"}
       => \A i \in 1..Len(applied) : applied[i].site # "additional"
  /\ (lastEvent.kind = "Update" /\ status # "panicked")
       => /\ applied[Len(applied)].site = "insert"
          /\ text = ApplyChanges(applied[Len(applied)].tx.doc,
                                 applied[Len(applied)].tx.changes)
  /\ \A k \in 1..Len(Catalogue) : \A a \in AdditionalValues :
       item_to_transaction(Doc, [Catalogue[k] EXCEPT !.additional_text_edits = a])
         = item_to_transaction(Doc, Catalogue[k])

\* C5 witness: a candidate that carries additional edits is previewed
C5_Witness ==
  /\ lastEvent = Event("Update", 6)
  /\ status = "active"
  /\ Sites = <<"remove", "insert">>
  /\ text # prevText

\* C6: previewing or accepting a candidate whose edit is InsertAndReplace
\* fails hard, and no insertion (nor anything after it) is applied for it.
C6_InsertAndReplaceRejected ==
  (/\ lastEvent.kind \in {"Update", "Validate"}
   /\ IsSome(LastItem.text_edit)
   /\ LastItem.text_edit[1].variant = "InsertAndReplace")
  => /\ status = "panicked"
     /\ \A i \in 1..Len(applied) : applied[i].site = "remove"
     /\ Len(text) <= Len(prevText)

\* C6 witness: accepting the InsertAndReplace candidate panicked
C6_Witness ==
  /\ lastEvent = Event("Validate", 5)
  /\ status = "panicked"

\* C7: when a preview or accept fails on an unsupported edit shape, the
\* document text is what it was before the event.
C7_NoPartialApplication ==
  status = "panicked" => text = prevText

\* C8: a preview or accept with the cursor not past trigger_offset applies no
\* removal: the insertion is the first transaction, against the unchanged
\* document, and a candidate without edit inserts its text at the cursor.
C8_NoRemovalAtTrigger ==
  (lastEvent.kind \in {"Update", "Validate"} /\ prevCursor <= trigger_offset)
  => /\ \A i \in 1..Len(applied) : applied[i].site # "remove"
     /\ status # "panicked"
          => /\ applied[1].site = "insert"
             /\ applied[1].tx.doc = prevText
     /\ (LastItem.text_edit = None /\ unwrap_or(LastItem.additional_text_edits, <<>>) = <<>>)
          => text = Slice(prevText, 0, prevCursor)
                      \o unwrap_or(LastItem.insert_text, LastItem.label)
                      \o Slice(prevText, prevCursor, Len(prevText))

\* C8 witness: trigger_offset = start_offset = cursor, and the candidate with
\* label "b", insert_text "ba" and no edit is accepted
C8_Witness ==
  /\ lastEvent = Event("Validate", 2)
  /\ trigger_offset = start_offset
  /\ prevCursor = trigger_offset
  /\ status = "accepted"
  /\ Sites = <<"insert">>
  /\ Len(text) = Len(prevText) + 2

\* C9: the insertion is the edit's range replaced by its text when the
\* candidate has an edit (insert_text and label ignored), otherwise
\* insert_text, or label without it, inserted at the cursor with zero width.
C9_EditPrecedence ==
  (lastEvent.kind \in {"Update", "Validate"} /\ status # "panicked")
  => LET at == IF trigger_offset < prevCursor THEN trigger_offset ELSE prevCursor
         ins == applied[IF trigger_offset < prevCursor THEN 2 ELSE 1]
     IN /\ ins.site = "insert"
        /\ Len(ins.tx.changes) = 1
        /\ IF IsSome(LastItem.text_edit)
           THEN /\ ins.tx.changes[1].from = LastItem.text_edit[1].from
                /\ ins.tx.changes[1].to = LastItem.text_edit[1].to
                /\ ins.tx.changes[1].text = LastItem.text_edit[1].new_text
           ELSE /\ ins.tx.changes[1].from = at
                /\ ins.tx.changes[1].to = at
                /\ ins.tx.changes[1].text =
                     IF IsSome(LastItem.insert_text) THEN LastItem.insert_text[1]
                     ELSE LastItem.label

\* C9 witness: the candidate with both an edit ("aa" at [0,0]) and an
\* insert_text ("b") is previewed with the cursor away from the edit's range
C9_Witness ==
  /\ lastEvent = Event("Update", 3)
  /\ prevCursor > 0
  /\ status = "active"
  /\ applied[Len(applied)].tx.changes = <<Change(0, 0, <<"a", "a">>)>>

\* C10: an abort applies no transaction; text and cursor are those before it.
C10_AbortNoMutation ==
  lastEvent.kind = "Abort"
  => /\ applied = <<>>
     /\ text = prevText
     /\ cursor = prevCursor
     /\ status = "aborted"

\* C10 witness: an abort with text entered past the trigger still in the document
C10_Witness ==
  /\ lastEvent.kind = "Abort"
  /\ status = "aborted"
  /\ trigger_offset < cursor
  /\ text = prevText

\* C11 (as claimed): once a re-filter has left the ranked subset empty, no later
\* step makes it non-empty again.
C11_EmptyTerminal ==
  [][(lastEvent.kind \in {"New", "Refilter"} /\ is_empty) => matches' = <<>>]_vars

\* C11 (amended): a re-filter keeps no memory of Empty: after it the ranked subset
\* is empty exactly when the cursor is before start_offset or no candidate's
\* filter text matches the fragment from start_offset to the cursor.
C11_RefilterMemoryless ==
  lastEvent.kind \in {"New", "Refilter"}
  => (is_empty <=>
        \/ cursor < start_offset
        \/ \A i \in 1..Len(options) :
             ~fuzzy_match(filter_text(Catalogue[options[i]]),
                          Slice(text, start_offset, cursor)))

\* C11 witness: the cursor was before start_offset (Empty) and a later re-filter,
\* with the cursor back at start_offset or after it, ranks candidates again
C11_Witness ==
  /\ lastEvent.kind = "Refilter"
  /\ prevCursor < start_offset
  /\ start_offset <= cursor
  /\ ~is_empty

\* C14: an Esc key event is returned Ignored without reaching the popup and
\* changes neither the session nor the document; every other event that acts
\* on the session went through the popup.
C14_EscapeIgnored ==
  [][/\ lastEvent'.kind = "Esc"
          => /\ event_result' = "Ignored"
             /\ ~forwarded'
             /\ UNCHANGED <<text, cursor, matches, selection, status, options,
                            start_offset, trigger_offset, menu_calls>>
     /\ lastEvent'.kind \in {"Refilter", "Update", "Validate", "Abort"}
          => forwarded']_vars

\* C14 witness: Esc pressed while a candidate is previewed past the trigger
C14_Witness ==
  /\ lastEvent.kind = "Esc"
  /\ event_result = "Ignored"
  /\ ~forwarded
  /\ selection # 0
  /\ trigger_offset < cursor
  /\ status = "active"

\* C15: sort_text is the candidate's sort_text when present and its label
\* otherwise; filter_text is its filter_text when present and its label otherwise.
C15_KeyProjections ==
  \A i \in 1..Len(options) :
    LET item == Catalogue[options[i]]
    IN /\ sort_text(item) = unwrap_or(item.sort_text, item.label)
       /\ filter_text(item) = unwrap_or(item.filter_text, item.label)

\* the width the claims call available_width, as an integer
AvailableWidth == geom.area_width - geom.popup_x - geom.popup_width

\* a render pass reached the choice of placement
Placed == frame.placement # "none"

\* C12: the panel goes beside the menu exactly when
\* viewport.width - menu.x - menu.width > 30; otherwise, also when the
\* difference is negative, the stacked branch is taken.
C12_LayoutSwitch ==
  Placed => /\ frame.placement \in {"beside", "stacked"}
            /\ (frame.placement = "beside") <=> (AvailableWidth > 30)

\* C12 witness: 31 columns left give the beside placement
C12_Witness ==
  /\ frame.drawn
  /\ AvailableWidth = 31
  /\ frame.placement = "beside"

\* C13: a stacked panel never covers the cursor's row.
C13_CursorRowVisible ==
  (frame.drawn /\ frame.placement = "stacked" /\ ~frame.underflow)
  => LET row == frame.cursor_pos + geom.area_y
     IN ~(frame.y <= row /\ row < frame.y + frame.height)

\* C16: a beside panel starts at (menu.x + menu.width, menu.y), is no wider than
\* viewport.width - menu.x - menu.width and no taller than
\* viewport.height - menu.y, has the document's natural size where that is
\* smaller, and lies inside the viewport.
C16_BesideInsideViewport ==
  (frame.drawn /\ frame.placement = "beside")
  => /\ frame.x = geom.popup_x + geom.popup_width
     /\ frame.y = geom.popup_y
     /\ frame.width <= AvailableWidth
     /\ frame.height <= geom.area_height - geom.popup_y
     /\ frame.width = Min(geom.natural_width, AvailableWidth)
     /\ frame.height = Min(geom.natural_height, geom.area_height - geom.popup_y)
     /\ frame.x + frame.width <= geom.area_width
     /\ frame.y + frame.height <= geom.area_height

\* C16 witness: a document larger than the room beside a menu that is not on the
\* first row: the panel takes all the room left
C16_Witness ==
  /\ frame.drawn
  /\ frame.placement = "beside"
  /\ geom.popup_y > 0
  /\ geom.natural_height > geom.area_height
  /\ frame.height = geom.area_height - geom.popup_y
  /\ frame.width = AvailableWidth

\* C19: no unsigned subtraction of render goes below zero.
C19_NoUnderflow ==
  ~frame.underflow

\* the candidate's primary edit on the text t with the cursor at position at
PrimaryOn(t, at, item) ==
  IF IsSome(item.text_edit)
  THEN Slice(t, 0, item.text_edit[1].from) \o item.text_edit[1].new_text
         \o Slice(t, item.text_edit[1].to, Len(t))
  ELSE Slice(t, 0, at) \o (IF IsSome(item.insert_text) THEN item.insert_text[1]
                           ELSE item.label)
         \o Slice(t, at, Len(t))

\* C17: after previews (and an accept without additional edits) the document is
\* the candidate's primary edit applied to the document as it was at the
\* trigger: nothing entered since and nothing of an earlier preview is left.
C17_PreviewsDoNotAccumulate ==
  (/\ origin.known
   /\ lastEvent.kind \in {"Update", "Validate"}
   /\ status # "panicked"
   /\ unwrap_or(LastItem.additional_text_edits, <<>>) = <<>>
   /\ IsSome(LastItem.text_edit) => LastItem.text_edit[1].to <= Len(origin.text))
  => text = PrimaryOn(origin.text, trigger_offset, LastItem)

\* the documents one key of the host editor makes of the document before it
HostEdits ==
  {prevText}
    \cup {Slice(prevText, 0, prevCursor) \o <<ch>> \o Slice(prevText, prevCursor, Len(prevText)) :
            ch \in Chars}
    \cup (IF prevCursor > 0
          THEN {Slice(prevText, 0, prevCursor - 1) \o Slice(prevText, prevCursor, Len(prevText))}
          ELSE {})

\* C18: no step changes start_offset, trigger_offset or the candidates, and a
\* re-filter leaves the document as the host editor's key made it.
C18_SessionFrame ==
  [][/\ start_offset' = start_offset
     /\ trigger_offset' = trigger_offset
     /\ options' = options
     /\ lastEvent'.kind = "Refilter" => text' \in HostEdits']_vars

\* C18 witness: a candidate accepted after text was entered, a preview and a
\* render, with the three fields still distinct from the cursor
C18_Witness ==
  /\ lastEvent.kind = "Validate"
  /\ status = "accepted"
  /\ frame.drawn
  /\ start_offset < trigger_offset
  /\ trigger_offset < prevCursor
  /\ cursor # trigger_offset

====
